---------------------------- MODULE Spec2Model ----------------------------
(***************************************************************************)
(* The orchestration graph of backend/src/graph (workflow.py, nodes.py,    *)
(* router.py, utils.py) as driven by backend/src/api/api.py, for one       *)
(* thread id (Spec), and for two thread ids that share the server and its  *)
(* checkpointer (ThreadsSpec).                                             *)
(*                                                                         *)
(* The Conversation State is the record st, one field per channel of       *)
(* MultiAgentState.  A node is an operator from the state (and the value   *)
(* its model collaborator returned) to the dictionary of updates the node  *)
(* returns; ApplyWrites commits the updates through the channel reducers   *)
(* (add_messages for the annotated keys, last value for the others), and   *)
(* the router functions pick the next node from the committed state.       *)
(*                                                                         *)
(* The language models, the tools and the human are inputs: every          *)
(* completion a node can receive is enumerated with \E, and a completion   *)
(* may raise (NodeFails).  The variable llm selects the collaborator       *)
(* behaviour explored: "any" (every answer, bounded by MaxMsgs and         *)
(* MaxTurns) or one of the two behaviours that never finish on their own   *)
(* ("tool_loop": the worker asks for a tool on every invocation,           *)
(* "route_loop": the controller dispatches on every invocation), or a      *)
(* thread whose memory store cannot be reached ("memory_down").            *)
(*                                                                         *)
(* Of the graph engine the model keeps what the code relies on: a node's   *)
(* updates are committed only when the node and its conditional edge       *)
(* return; a raised exception leaves the last checkpoint; interrupt()      *)
(* suspends the node before any update and a resume re-runs it from the    *)
(* start; a new input on a thread discards the pending node and enters at  *)
(* the entry point; the tool node runs every tool call of the latest AI    *)
(* message of "messages" and appends one ToolMessage per call.             *)
(***************************************************************************)
EXTENDS Naturals, Integers, Sequences, FiniteSets, TLC

(* ------------------------------ bounds -------------------------------- *)
\* llm = "any": no new turn, no dispatch and no tool request that gets
\* executed once "messages" is this long
MaxMsgs == 8
\* llm = "any": user turns started on the thread
MaxTurns == 2
\* length of the histories filter_supervisor_history is called with directly
MaxHistory == 4

(* ------------------------- program constants -------------------------- *)
RecursionLimit == 40
HistoryLimit == 20
MemoryToolCap == 2

\* consts.py
SUPERVISOR_NODE == "supervisor"
EMAIL_AGENT_NODE == "email_agent"
CALENDAR_AGENT_NODE == "calendar_agent"
SHEET_AGENT_NODE == "sheet_agent"
MEMORY_AGENT_NODE == "memory_agent"
BROWSER_AGENT_NODE == "browser_agent"
REVIEWER_NODE == "reviewer_agent"
RETRIEVE_MEMORY_NODE == "retrieve_memory"
CLEAR_STATE_NODE == "clear_state"
EMAIL_TOOL_NODE == "email_tool_node"
CALENDAR_TOOL_NODE == "calendar_tool_node"
SHEET_TOOL_NODE == "sheet_tool_node"
MEMORY_TOOL_NODE == "memory_tool_node"
DEEP_RESEARCH_AGENT_NODE == "deep_research_agent"
DEEP_RESEARCH_TOOL_NODE == "deep_research_tools"
SENSITIVE_EMAIL_TOOLS == {"send_email", "reply_to_email"}
END == "__end__"

\* tool names bound to each worker (a representative of each kind for mail)
EMAIL_TOOLS == {"get_unread_emails", "send_email", "reply_to_email", "mark_email_as_read"}
CAL_TOOLS == {"get_calendar_events", "create_calendar_event", "update_calendar_event"}
SHEET_TOOLS == {"upsert_contact", "get_contact", "list_contacts",
                "update_contact_field", "set_contact_tone", "delete_contact"}
MEMORY_TOOLS == {"add_memory", "update_memory", "delete_memory"}
RESEARCH_TOOLS == {"tavily_search_results_json"}

(* ------------------------------ messages ------------------------------ *)
\* Python's None for a string-valued field, and for a message name
None == "None"
\* a falsy string: None or ""
Truthy(s) == s # None /\ s # ""

\* BaseMessage: type human | ai | tool.  tool_calls is a sequence of
\* [name, id]; tool_call_id is 0 except on a ToolMessage; id 0 is "no id".
HumanMessage(content, name, id) ==
    [type |-> "human", name |-> name, content |-> content,
     tool_calls |-> <<>>, tool_call_id |-> 0, id |-> id]
AIMessage(content, name, tool_calls, id) ==
    [type |-> "ai", name |-> name, content |-> content,
     tool_calls |-> tool_calls, tool_call_id |-> 0, id |-> id]
ToolMessage(content, tool_call_id, name, id) ==
    [type |-> "tool", name |-> name, content |-> content,
     tool_calls |-> <<>>, tool_call_id |-> tool_call_id, id |-> id]

\* an Optional[...] field: <<>> is None, <<v>> is the value v
NoneOpt == <<>>
Some(v) == <<v>>

Last(s) == s[Len(s)]

\* str.lower() on the names the code compares
Lower(n) == IF n \in {"Supervisor", "SUPERVISOR"} THEN "supervisor" ELSE n

\* a channel without reducer: the update replaces the list
add_messages_last_value(left, right) == right

\* the add_messages reducer of the annotated channels: a message of the
\* update whose id is already in the list replaces that entry in place, any
\* other message is appended (a later message of the update with the same id
\* replaces the appended one); id 0 stands for a message without id, which
\* the reducer gives a fresh one
add_messages(left, right) ==
    LET written(id, dflt) ==
            LET js == {j \in 1..Len(right) : right[j].id = id}
            IN IF id = 0 \/ js = {} THEN dflt
               ELSE right[CHOOSE j \in js : \A h \in js : h <= j]
        merged == [i \in 1..Len(left) |-> written(left[i].id, left[i])]
        is_new(j) ==
            \/ right[j].id = 0
            \/ /\ \A i \in 1..Len(left) : left[i].id # right[j].id
               /\ \A h \in 1..(j - 1) : right[h].id # right[j].id
        new_at == SelectSeq([j \in 1..Len(right) |-> j], is_new)
    IN merged \o [n \in 1..Len(new_at) |->
                    written(right[new_at[n]].id, right[new_at[n]])]

\* channels annotated with add_messages
ReducerKeys == {"messages", "sheet_messages", "email_messages",
                "calendar_messages", "memory_messages"}

\* commit of a node's update dictionary: keys outside the schema are
\* dropped, annotated keys go through the reducer, the others are replaced
ApplyWrites(state, writes) ==
    [k \in DOMAIN writes \cap DOMAIN state |->
        IF k \in ReducerKeys THEN add_messages(state[k], writes[k])
        ELSE writes[k]] @@ state

\* MultiAgentState: the channels the schema declares, before any input
DeclaredState ==
    [messages |-> <<>>, core_messages |-> <<>>, route |-> None,
     sheet_messages |-> <<>>, email_messages |-> <<>>,
     calendar_messages |-> <<>>, memory_messages |-> <<>>,
     browser_messages |-> <<>>,
     browser_agent_response |-> None, retrieved_memory |-> None,
     current_user_message |-> None,
     message_to_next_agent |-> NoneOpt, supervisor_response |-> None,
     email_agent_response |-> None, calendar_agent_response |-> None,
     sheet_agent_response |-> None, memory_agent_response |-> None,
     pending_email_tool_call |-> NoneOpt, review_decision |-> None,
     review_feedback |-> None]

\* the keys nodes.py reads and writes that the schema file does not list
\* (graph/state.py): taken as plain last-value fields of the Conversation
\* State, as section 3 of the specification describes them
UndeclaredState ==
    [bulk_approval_active |-> FALSE, research_messages |-> <<>>,
     research_agent_response |-> None]

\* the Conversation State of a thread with no checkpoint yet
InitialState ==
    [k \in DOMAIN DeclaredState \cup DOMAIN UndeclaredState |->
        IF k \in DOMAIN DeclaredState THEN DeclaredState[k] ELSE UndeclaredState[k]]

(* ------------------------------ utils.py ------------------------------ *)
tc_ids(m) == {m.tool_calls[k].id : k \in 1..Len(m.tool_calls)}

\* a reconciliation that leaves every tool-call request in place
strip_tool_calls_keep(history) == history

strip_tool_calls(history) ==
    [i \in 1..Len(history) |->
        LET m == history[i]
            is_paired == /\ i + 1 <= Len(history)
                         /\ history[i + 1].type = "tool"
                         /\ history[i + 1].tool_call_id \in tc_ids(m)
        IN IF m.type = "ai" /\ m.tool_calls # <<>> /\ ~is_paired
           THEN AIMessage(IF m.content = "" THEN "[Delegating to sub-agent...]"
                          ELSE m.content, m.name, <<>>, m.id)
           ELSE m]

extract_last_tool_call(messages) ==
    IF messages = <<>> THEN NoneOpt
    ELSE IF Last(messages).tool_calls = <<>> THEN NoneOpt
    ELSE Some(Last(Last(messages).tool_calls))

RECURSIVE get_last_human_message_from(_, _)
get_last_human_message_from(messages, i) ==
    IF i = 0 THEN HumanMessage("", None, 0)
    ELSE IF messages[i].type = "human" /\ messages[i].name # "Supervisor"
         THEN messages[i]
         ELSE get_last_human_message_from(messages, i - 1)

get_last_human_message(messages) ==
    get_last_human_message_from(messages, Len(messages))

\* a filter that also keeps the human's review replies
supervisor_keeps_reviews(msg) ==
    \/ msg.type = "human"
    \/ msg.type = "ai" /\ Lower(msg.name) \in {"supervisor", "sub_agent_task_summary"}

supervisor_keeps(msg) ==
    \/ msg.type = "human" /\ msg.name # "review_human"
    \/ msg.type = "ai" /\ Lower(msg.name) \in {"supervisor", "sub_agent_task_summary"}

RECURSIVE raw_filtered_from(_, _, _, _)
\* the backwards loop of filter_supervisor_history, from index i down
raw_filtered_from(messages, i, acc, limit) ==
    IF i = 0 THEN acc
    ELSE LET acc2 == IF supervisor_keeps(messages[i])
                     THEN <<messages[i]>> \o acc ELSE acc
         IN IF Len(acc2) >= limit THEN acc2
            ELSE raw_filtered_from(messages, i - 1, acc2, limit)

filter_supervisor_history(messages, limit) ==
    strip_tool_calls(raw_filtered_from(messages, Len(messages), <<>>, limit))

(* ------------------------------ nodes.py ------------------------------ *)
IsToolMessage(m) == m.type = "tool"

_get_agent_inputs(state, history_key) ==
    LET history == state[history_key]
        all_messages == state.messages
        found_tool_messages ==
            SelectSeq(all_messages,
                      LAMBDA m : m.type = "tool" /\ m.tool_call_id \in tc_ids(Last(history)))
        existing_ids == {history[i].tool_call_id :
                            i \in {j \in 1..Len(history) : history[j].type = "tool"}}
        new_tool_msgs ==
            SelectSeq(found_tool_messages, LAMBDA m : m.tool_call_id \notin existing_ids)
        next_msg == IF state.message_to_next_agent # NoneOpt
                    THEN state.message_to_next_agent[1]
                    ELSE Last(all_messages)
    IN IF history # <<>> /\ Last(history).type = "tool"
       THEN strip_tool_calls(history)
       ELSE IF /\ history # <<>>
               /\ Last(history).type = "ai"
               /\ Last(history).tool_calls # <<>>
               /\ new_tool_msgs # <<>>
       THEN strip_tool_calls(history \o new_tool_msgs)
       ELSE strip_tool_calls(history \o <<next_msg>>)

\* the AIMessage a tool-bound model returns: message id nid, one tool call
\* per requested name with the ids that follow nid
Completion(content, names, nid) ==
    AIMessage(content, None,
              [k \in 1..Len(names) |-> [name |-> names[k], id |-> nid + k]], nid)

call_agent_generic(state, history_key, response_key, response) ==
    LET input_msgs == _get_agent_inputs(state, history_key)
        new_inputs == SubSeq(input_msgs, Len(state[history_key]) + 1, Len(input_msgs))
    IN [messages |-> <<response>>,
        core_messages |-> state.core_messages \o <<response>>,
        message_to_next_agent |-> NoneOpt]
       @@ (history_key :> state[history_key] \o new_inputs \o <<response>>)
       @@ (response_key :> response.content)

\* the tool search_memory: the memory store's answer, or the text of the
\* except branch when the call of the store raised
search_memory(query, raised) ==
    IF raised THEN "Error searching memories"
    ELSE IF query = "u" THEN "ctx" ELSE "No relevant memories found."

\* a retrieval that leaves the context unset
retrieve_memory_none(state, retrieved) ==
    [retrieved_memory |-> None,
     current_user_message |-> Last(state.messages).content]

retrieve_memory(state, retrieved) ==
    [retrieved_memory |-> retrieved,
     current_user_message |-> Last(state.messages).content]

\* response: the structured decision [route, message_to_next_agent, response]
call_supervisor(state, response, nid) ==
    LET supervisor_ai_message == AIMessage(response.response, "Supervisor", <<>>, nid)
        message_to_next_agent ==
            IF response.route # "none"
            THEN Some(HumanMessage(response.message_to_next_agent, "Supervisor", nid + 1))
            ELSE NoneOpt
    IN [route |-> Lower(response.route),
        messages |-> <<supervisor_ai_message>> \o message_to_next_agent,
        core_messages |-> state.core_messages \o <<supervisor_ai_message>>,
        supervisor_response |-> response.response,
        message_to_next_agent |-> message_to_next_agent]

call_email_agent(state, response) ==
    call_agent_generic(state, "email_messages", "email_agent_response", response)

call_calendar_agent(state, response) ==
    call_agent_generic(state, "calendar_messages", "calendar_agent_response", response)

call_sheet_agent(state, response) ==
    call_agent_generic(state, "sheet_messages", "sheet_agent_response", response)

NoWrites == [k \in {} |-> 0]

\* resume: NoneOpt on the first execution, Some(human_text) when resumed;
\* the feedback texts the reviewer model may extract from the human's reply
Feedbacks == {"", "fb"}

\* f"User rejected draft. Feedback: {review.feedback}. Please Rewrite."
rejection_text(feedback) ==
    IF feedback = "fb" THEN "User rejected draft. Feedback: fb. Please Rewrite."
    ELSE "User rejected draft. Feedback: . Please Rewrite."

\* the texts that contain "User rejected draft"
RejectionTexts == {rejection_text(f) : f \in Feedbacks}

\* review: the reviewer model's classification [decision, feedback].
\* Result: whether interrupt() suspended the node, and the updates returned.
\* the Reviewer without the auto-approval check of nodes.py line 189
call_reviewer_agent_no_bulk(state, resume, review, nid) ==
    LET pending == IF state.pending_email_tool_call # NoneOpt
                   THEN state.pending_email_tool_call
                   ELSE extract_last_tool_call(state.messages)
        tool_name == Lower(pending[1].name)
        tool_id == pending[1].id
        human == HumanMessage(resume[1], "review_human", nid)
        rejection_msg == ToolMessage(rejection_text(review.feedback), tool_id, tool_name, nid)
        reviewed == AIMessage("[REVIEW]", "reviewer_agent", <<>>, 0)
    IN IF pending = NoneOpt \/ Lower(pending[1].name) \notin SENSITIVE_EMAIL_TOOLS
       THEN [interrupt |-> FALSE, writes |-> [review_decision |-> None]]
       ELSE IF resume = NoneOpt
       THEN [interrupt |-> TRUE, writes |-> NoWrites]
       ELSE IF review.decision = "approved"
       THEN [interrupt |-> FALSE, writes |->
               [review_decision |-> review.decision,
                review_feedback |-> review.feedback,
                messages |-> <<human>>,
                core_messages |-> state.core_messages \o <<reviewed>>,
                bulk_approval_active |-> TRUE]]
       ELSE [interrupt |-> FALSE, writes |->
               [review_decision |-> review.decision,
                review_feedback |-> review.feedback,
                messages |-> <<rejection_msg>>,
                core_messages |-> state.core_messages \o <<reviewed>>,
                email_messages |-> state.email_messages \o <<rejection_msg>>,
                message_to_next_agent |-> NoneOpt,
                bulk_approval_active |-> FALSE]]

call_reviewer_agent(state, resume, review, nid) ==
    LET pending == IF state.pending_email_tool_call # NoneOpt
                   THEN state.pending_email_tool_call
                   ELSE extract_last_tool_call(state.messages)
        tool_name == Lower(pending[1].name)
        tool_id == pending[1].id
        human == HumanMessage(resume[1], "review_human", nid)
        rejection_msg == ToolMessage(rejection_text(review.feedback), tool_id, tool_name, nid)
        reviewed == AIMessage("[REVIEW]", "reviewer_agent", <<>>, 0)
    IN IF state.bulk_approval_active = TRUE
       THEN [interrupt |-> FALSE, writes |-> [review_decision |-> "approved"]]
       ELSE IF pending = NoneOpt \/ Lower(pending[1].name) \notin SENSITIVE_EMAIL_TOOLS
       THEN [interrupt |-> FALSE, writes |-> [review_decision |-> None]]
       ELSE IF resume = NoneOpt
       THEN [interrupt |-> TRUE, writes |-> NoWrites]
       ELSE IF review.decision = "approved"
       THEN [interrupt |-> FALSE, writes |->
               [review_decision |-> review.decision,
                review_feedback |-> review.feedback,
                messages |-> <<human>>,
                core_messages |-> state.core_messages \o <<reviewed>>,
                bulk_approval_active |-> TRUE]]
       ELSE [interrupt |-> FALSE, writes |->
               [review_decision |-> review.decision,
                review_feedback |-> review.feedback,
                messages |-> <<rejection_msg>>,
                core_messages |-> state.core_messages \o <<reviewed>>,
                email_messages |-> state.email_messages \o <<rejection_msg>>,
                message_to_next_agent |-> NoneOpt,
                bulk_approval_active |-> FALSE]]

RECURSIVE recent_tool_messages(_, _)
\* the ToolMessages at the end of the global stream
recent_tool_messages(all_messages, i) ==
    IF i = 0 \/ all_messages[i].type # "tool" THEN <<>>
    ELSE recent_tool_messages(all_messages, i - 1) \o <<all_messages[i]>>

\* the input history call_memory_agent constructs for its model
memory_input_msgs(state) ==
    LET memory_history == state.memory_messages
        user_msg == get_last_human_message(state.messages)
        recent == recent_tool_messages(state.messages, Len(state.messages))
    IN IF recent # <<>> THEN memory_history \o recent
       ELSE memory_history \o <<user_msg>>

call_memory_agent(state, response) ==
    LET input_msgs == memory_input_msgs(state)
    IN [messages |-> <<response>>,
        memory_messages |-> input_msgs \o <<response>>,
        memory_agent_response |-> response.content,
        message_to_next_agent |-> NoneOpt]

call_browser_agent(state, result_text, nid) ==
    LET next_msg == IF state.message_to_next_agent # NoneOpt
                    THEN state.message_to_next_agent[1]
                    ELSE Last(state.messages)
        response == AIMessage(result_text, "browser_agent", <<>>, nid)
    IN [messages |-> <<response>>,
        core_messages |-> state.core_messages \o <<response>>,
        browser_messages |-> state.browser_messages \o <<next_msg, response>>,
        browser_agent_response |-> result_text,
        message_to_next_agent |-> NoneOpt]

Reverse(s) == [i \in 1..Len(s) |-> s[Len(s) + 1 - i]]

\* get_tool_results_text: the contents of the tool results of the history
\* that are no review rejection, latest first (the code joins them with
\* " | "); <<>> is its None
get_tool_results_text(history) ==
    LET results == SelectSeq(Reverse(history),
                             LAMBDA m : m.type = "tool" /\ m.content \notin RejectionTexts)
    IN [i \in 1..Len(results) |-> results[i].content]

\* a line of the summary's details: its label, and the text or the tool
\* results that follow it
DetailLine(label, text, results) == [label |-> label, text |-> text, results |-> results]
ToolOutputLabel == "ACTION COMPLETED (Tool Output)"

\* a worker's status line, followed by its tool output line when
\* get_tool_results_text returned a text
status_and_tools(label, agent_res, tool_res) ==
    IF ~Truthy(agent_res) THEN <<>>
    ELSE <<DetailLine(label, agent_res, <<>>)>>
         \o (IF tool_res # <<>> THEN <<DetailLine(ToolOutputLabel, "", tool_res)>> ELSE <<>>)

\* the lines clear_sub_agents_state collects in summary_parts, in its order
summary_details(state) ==
    status_and_tools("Email Agent Status", state.email_agent_response,
                     get_tool_results_text(state.email_messages))
    \o status_and_tools("Calendar Agent Status", state.calendar_agent_response,
                        get_tool_results_text(state.calendar_messages))
    \o status_and_tools("Sheet Agent", state.sheet_agent_response, <<>>)
    \o status_and_tools("Browser Agent", state.browser_agent_response, <<>>)
    \o status_and_tools("Deep Research Agent Findings", state.research_agent_response, <<>>)

\* the non-empty worker responses the summary reports
summary_parts(state) ==
    {k \in {"email_agent_response", "calendar_agent_response", "sheet_agent_response",
            "browser_agent_response", "research_agent_response"} : Truthy(state[k])}

\* the head of the summary text: the report header with the instruction it
\* names (the system instruction at its end is the same in every summary)
final_summary(inst_text) ==
    CASE inst_text = "i1" -> "SUBSYSTEM REPORT. Instruction Addressed: i1"
      [] inst_text = "i2" -> "SUBSYSTEM REPORT. Instruction Addressed: i2"
      [] OTHER -> "SUBSYSTEM REPORT. Instruction Addressed: Current user request"

clear_sub_agents_state(state, nid) ==
    LET core == SelectSeq(state.messages,
                          LAMBDA m : m.type = "human"
                                     \/ m.name \in {"Supervisor", "sub_agent_task_summary"})
        last_inst == state.message_to_next_agent
        inst_text == IF last_inst # NoneOpt THEN last_inst[1].content
                     ELSE "Current user request"
        summary_message == AIMessage(final_summary(inst_text), "sub_agent_task_summary",
                                     <<>>, nid)
                           @@ [details |-> summary_details(state)]
        has_parts == summary_parts(state) # {}
    IN [messages |-> IF has_parts THEN <<summary_message>> ELSE <<>>,
        core_messages |-> IF has_parts THEN core \o <<summary_message>> ELSE core,
        email_messages |-> <<>>,
        calendar_messages |-> <<>>,
        sheet_messages |-> <<>>,
        email_agent_response |-> None,
        calendar_agent_response |-> None,
        sheet_agent_response |-> None,
        browser_agent_response |-> None,
        research_agent_response |-> None,
        message_to_next_agent |-> NoneOpt,
        review_decision |-> None,
        review_feedback |-> None,
        pending_email_tool_call |-> NoneOpt,
        bulk_approval_active |-> FALSE]

(* ----------------------------- the tool node -------------------------- *)
RECURSIVE latest_ai_message(_, _)
latest_ai_message(messages, i) ==
    IF i = 0 THEN NoneOpt
    ELSE IF messages[i].type = "ai" THEN Some(messages[i])
    ELSE latest_ai_message(messages, i - 1)

\* the tool calls a tool node finds in the state
pending_tool_calls(state) ==
    latest_ai_message(state.messages, Len(state.messages))[1].tool_calls

\* a domain tool: its body runs inside try / except Exception and returns
\* the error text when the service call raised
tool_result(raised) == IF raised THEN "An error occurred" ELSE "ok"

\* a tool node that loses the result of a call whose tool failed
ToolNode_drops_failed(state, tools, nid, failed) ==
    LET calls == pending_tool_calls(state)
        done == SelectSeq([k \in 1..Len(calls) |-> k], LAMBDA k : k \notin failed)
    IN [messages |->
          [n \in 1..Len(done) |->
              ToolMessage(IF calls[done[n]].name \in tools THEN "ok" ELSE "not a valid tool",
                          calls[done[n]].id, calls[done[n]].name, nid + n - 1)]]

\* ToolNode(tools): one ToolMessage per tool call of the latest AI message;
\* failed holds the positions of the calls whose service call raised
ToolNode(state, tools, nid, failed) ==
    LET calls == pending_tool_calls(state)
    IN [messages |->
          [k \in 1..Len(calls) |->
              ToolMessage(IF calls[k].name \in tools THEN tool_result(k \in failed)
                          ELSE "not a valid tool",
                          calls[k].id, calls[k].name, nid + k - 1)]]

(* ------------------------------ router.py ----------------------------- *)
_get_last_tool_name(messages) ==
    IF messages = <<>> THEN None
    ELSE IF Last(messages).tool_calls = <<>> THEN None
    ELSE Lower(Last(Last(messages).tool_calls).name)

sub_agent_should_continue(state) ==
    LET tool_name == _get_last_tool_name(state.messages)
    IN IF tool_name = None THEN CLEAR_STATE_NODE
       ELSE IF tool_name \in SENSITIVE_EMAIL_TOOLS THEN REVIEWER_NODE
       ELSE IF tool_name \in EMAIL_TOOLS THEN EMAIL_TOOL_NODE
       ELSE IF tool_name \in CAL_TOOLS THEN CALENDAR_TOOL_NODE
       ELSE IF tool_name \in SHEET_TOOLS THEN SHEET_TOOL_NODE
       ELSE IF tool_name \in RESEARCH_TOOLS THEN DEEP_RESEARCH_TOOL_NODE
       ELSE CLEAR_STATE_NODE

supervisor_should_continue(state) ==
    IF state.route = "email_agent" THEN EMAIL_AGENT_NODE
    ELSE IF state.route = "calendar_agent" THEN CALENDAR_AGENT_NODE
    ELSE IF state.route = "sheet_agent" THEN SHEET_AGENT_NODE
    ELSE IF state.route = "browser_agent" THEN BROWSER_AGENT_NODE
    ELSE IF state.route = "deep_research_agent" THEN DEEP_RESEARCH_AGENT_NODE
    ELSE "end"

\* a Reviewer router that sends every decision other than change_requested
\* to Tool Execution
reviewer_should_continue_no_passthrough(state) ==
    IF state.review_decision = "change_requested" THEN EMAIL_AGENT_NODE
    ELSE EMAIL_TOOL_NODE

reviewer_should_continue(state) ==
    IF state.review_decision = "approved" THEN EMAIL_TOOL_NODE
    ELSE IF state.review_decision = "change_requested" THEN EMAIL_AGENT_NODE
    ELSE CLEAR_STATE_NODE

tool_output_count(memory_history) ==
    Cardinality({i \in 1..Len(memory_history) : memory_history[i].type = "tool"})

\* the memory router without the safety valve of router.py lines 95-97
memory_should_continue_no_cap(state) ==
    IF state.messages = <<>> THEN "end"
    ELSE IF Last(state.messages).tool_calls # <<>>
    THEN IF Lower(Last(state.messages).tool_calls[1].name) \in MEMORY_TOOLS
         THEN MEMORY_TOOL_NODE
         ELSE "end"
    ELSE "end"

memory_should_continue(state) ==
    IF state.messages = <<>> THEN "end"
    ELSE IF Last(state.messages).tool_calls # <<>>
    THEN IF tool_output_count(state.memory_messages) >= MemoryToolCap THEN "end"
         ELSE IF Lower(Last(state.messages).tool_calls[1].name) \in MEMORY_TOOLS
              THEN MEMORY_TOOL_NODE
              ELSE "end"
    ELSE "end"

(* ----------------------------- workflow.py ---------------------------- *)
\* the path map of each conditional edge, and the plain edges as the map
\* from the constant "always"
\* a Controller path map whose "end" finishes the run
SupervisorEdges_to_END ==
    [k \in {EMAIL_AGENT_NODE, CALENDAR_AGENT_NODE, SHEET_AGENT_NODE, BROWSER_AGENT_NODE, "end"}
        |-> IF k = "end" THEN END ELSE k]

SupervisorEdges ==
    [k \in {EMAIL_AGENT_NODE, CALENDAR_AGENT_NODE, SHEET_AGENT_NODE, BROWSER_AGENT_NODE, "end"}
        |-> IF k = "end" THEN MEMORY_AGENT_NODE ELSE k]
EmailAgentEdges == [k \in {REVIEWER_NODE, EMAIL_TOOL_NODE, CLEAR_STATE_NODE} |-> k]
CalendarAgentEdges == [k \in {CALENDAR_TOOL_NODE, CLEAR_STATE_NODE} |-> k]
SheetAgentEdges == [k \in {SHEET_TOOL_NODE, CLEAR_STATE_NODE} |-> k]
ReviewerEdges == [k \in {EMAIL_TOOL_NODE, EMAIL_AGENT_NODE, CLEAR_STATE_NODE} |-> k]
MemoryAgentEdges ==
    [k \in {MEMORY_TOOL_NODE, "end"} |-> IF k = "end" THEN END ELSE k]

(* ------------------------- the thread's execution --------------------- *)
VARIABLES
    st,          \* the checkpointed Conversation State of the thread
    pc,          \* the node to run next (END: none)
    status,      \* "idle" | "running" | "interrupted" | "error"
    steps,       \* nodes executed by the current request (recursion_limit)
    prev,        \* the node that committed last ("start" after a new input)
    llm,         \* behaviour of the collaborators: any | tool_loop | route_loop |
                 \* memory_down
    nextId,      \* next fresh message / tool-call id
    memRuns,     \* executions of the memory tool node in the current turn
    retrievals,  \* executions of retrieve_memory in the current turn
    summarized,  \* <<route, instruction>> of the excursions summarized this turn
    fault,       \* the exception that ended the current request, if any
    other,       \* the node a second request for the thread is executing, or "none"
    last_agent,  \* stream_generator: the node of the latest agent_start event
    emitted,     \* the events the request's stream yielded in its latest step
    closed,      \* the request's stream has yielded a terminal event
    abandoned,   \* ids of the calls that awaited review when a new turn was started
    thread,      \* the thread id of the request being served
    saved,       \* the checkpointer's storage: thread id -> checkpoint
    filterInput, \* a direct call of filter_supervisor_history: its messages,
    filterLimit, \* its limit,
    filterOutput \* and the list it returned

graphVars == <<st, pc, status, steps, prev, llm, nextId, memRuns, retrievals, summarized,
               fault, other, last_agent, emitted, closed, abandoned>>
filterVars == <<filterInput, filterLimit, filterOutput>>
threadVars == <<thread, saved>>
vars == <<graphVars, filterVars, threadVars>>

\* the thread ids of the requests: config["configurable"]["thread_id"]
ThreadIds == {"t1", "t2"}

\* what the checkpointer holds for a thread and the request serving it: the
\* Conversation State, the pending node and the request's progress
Checkpoint(s, node, stat, n, p, l, id, mr, rt, sm, f, o, la, ev, cl, ab) ==
    [st |-> s, pc |-> node, status |-> stat, steps |-> n, prev |-> p, llm |-> l,
     nextId |-> id, memRuns |-> mr, retrievals |-> rt, summarized |-> sm, fault |-> f,
     other |-> o, last_agent |-> la, emitted |-> ev, closed |-> cl, abandoned |-> ab]

\* an exception: its type and the str(e) the error event carries
Exception(type, arg) == [type |-> type, arg |-> arg]
NoFault == Exception("", "")

GraphInit ==
    /\ st = InitialState
    /\ pc = END
    /\ status = "idle"
    /\ steps = 0
    /\ prev = "none"
    /\ llm \in {"any", "tool_loop", "route_loop", "memory_down"}
    /\ nextId = 1
    /\ memRuns = 0
    /\ retrievals = 0
    /\ summarized = {}
    /\ fault = NoFault
    /\ other = "none"
    /\ last_agent = None
    /\ emitted = <<>>
    /\ closed = FALSE
    /\ abandoned = {}

\* a thread id the checkpointer has no checkpoint for
NewThread ==
    Checkpoint(InitialState, END, "idle", 0, "none", "any", 1, 0, 0, {}, NoFault, "none",
               None, <<>>, FALSE, {})

\* the requests of one thread id are followed; no other thread has started
OneThread ==
    /\ thread = "t1"
    /\ saved = [t \in ThreadIds |-> NewThread]

Init ==
    /\ GraphInit
    /\ OneThread
    /\ filterInput = <<>>
    /\ filterLimit = HistoryLimit
    /\ filterOutput = <<>>

\* answers the collaborators can give
\* the route values the Supervisor schema accepts
RouteLiteral == {"email_agent", "calendar_agent", "sheet_agent", "memory_agent", "none"}
\* the route values the Controller's model may propose: those of the schema
\* and the workers its prompt and the router name besides
Routes == RouteLiteral \cup {"browser_agent", "deep_research_agent"}
WorkerRoutes == {"email_agent", "calendar_agent", "sheet_agent", "browser_agent"}
Instructions == {"i1", "i2"}
FinalTexts == {"", "txt"}
EmailToolCalls == {<<"get_unread_emails">>, <<"send_email">>,
                   <<"get_unread_emails", "send_email">>,
                   <<"send_email", "get_unread_emails">>}
CalendarToolCalls == {<<"get_calendar_events">>}
SheetToolCalls == {<<"get_contact">>}
MemoryToolCalls == {<<"add_memory">>, <<"add_memory", "update_memory">>}
Decisions == {"approved", "change_requested"}

UserTurns(messages) ==
    Cardinality({i \in 1..Len(messages) :
                    messages[i].type = "human" /\ messages[i].name = None})

\* llm = "any": the collaborator may still give an answer that prolongs the turn
CanGrow == llm = "any" /\ Len(st.messages) < MaxMsgs

\* a graph run without recursion_limit
Running_no_limit(node) == status = "running" /\ pc = node

\* the node is scheduled and the run has supersteps left (recursion_limit)
Running(node) == status = "running" /\ pc = node /\ steps < RecursionLimit

\* the state the checkpointer saves when a node returns the update writes
Update(writes) == {ApplyWrites(st, w) : w \in {writes}}

\* nodes that await a model completion
ModelNodes == {SUPERVISOR_NODE, EMAIL_AGENT_NODE, CALENDAR_AGENT_NODE, SHEET_AGENT_NODE,
               BROWSER_AGENT_NODE, MEMORY_AGENT_NODE}

(* ---------------------- the event stream of a request ------------------ *)
\* an event of the response stream; agent is None on a terminal event
Event(event, agent) == [event |-> event, agent |-> agent]
TerminalEvents == {"interrupt", "done", "error"}

\* what graph.astream(stream_mode="messages") yields for a message: chunk is
\* isinstance(msg, AIMessageChunk)
StreamItem(chunk, msg) ==
    [chunk |-> chunk, content |-> msg.content, tool_calls |-> msg.tool_calls]

\* the items a step of node yields when it commits new as the state: the
\* completion of the node's model as a chunk, the other messages the node
\* returned as they are
stream_items(node, new) ==
    LET n == Len(st.messages)
    IN [k \in 1..(Len(new.messages) - n) |->
          StreamItem(node \in ModelNodes /\ new.messages[n + k].type = "ai",
                     new.messages[n + k])]

\* the token and tool_call events of one item
item_events(node, item) ==
    (IF item.chunk /\ item.content # "" THEN <<Event("token", node)>> ELSE <<>>)
    \o [k \in 1..Len(item.tool_calls) |-> Event("tool_call", node)]

RECURSIVE items_events(_, _, _)
\* the token and tool_call events of the items from position k on
items_events(node, items, k) ==
    IF k > Len(items) THEN <<>>
    ELSE item_events(node, items[k]) \o items_events(node, items, k + 1)

\* stream_generator without the agent_start event
loop_body_no_start(last, node, items) == items_events(node, items, 1)

\* the body of stream_generator's loop over the items of one step, all of
\* which carry langgraph_node = node: agent_start when the node differs from
\* last_agent, then the events of each item
loop_body(last, node, items) ==
    IF Len(items) = 0 THEN <<>>
    ELSE (IF node # last THEN <<Event("agent_start", node)>> ELSE <<>>)
         \o items_events(node, items, 1)

\* after the loop: graph.get_state(config), then interrupt, done or nothing
after_stream(next, interrupts) ==
    IF next # END
    THEN IF interrupts THEN <<Event("interrupt", None)>> ELSE <<>>
    ELSE <<Event("done", None)>>

\* the step of node yields items and the run goes on to dest
Yield(last, node, items, dest) ==
    \E ev \in {loop_body(last, node, items)
                \o (IF dest = END THEN after_stream(dest, FALSE) ELSE <<>>)} :
        /\ emitted' = ev
        /\ last_agent' = IF Len(items) = 0 THEN last ELSE node
        /\ closed' = (dest = END)

\* the superstep commits: state saved, next node scheduled
Commit(node, new, dest, used) ==
    /\ st' = new
    /\ pc' = dest
    /\ status' = IF dest = END THEN "idle" ELSE "running"
    /\ steps' = steps + 1
    /\ prev' = node
    /\ nextId' = nextId + used
    /\ other' = "none"
    /\ Yield(last_agent, node, stream_items(node, new), dest)
    /\ UNCHANGED <<llm, fault, abandoned, filterVars, threadVars>>

\* the node or its conditional edge raised after yielding items: the
\* checkpoint is unchanged and stream_generator emits the error event
Fail(items, e) ==
    /\ status' = "error"
    /\ fault' = e
    /\ other' = "none"
    /\ \E last \in {IF status = "running" THEN last_agent ELSE None} :
         /\ emitted' = loop_body(last, pc, items) \o <<Event("error", None)>>
         /\ last_agent' = IF Len(items) = 0 THEN last ELSE pc
    /\ closed' = TRUE
    /\ UNCHANGED <<st, pc, steps, prev, llm, nextId, memRuns, retrievals, summarized,
                   abandoned, filterVars, threadVars>>

\* the failure of a node that had yielded nothing
Raise(e) == Fail(<<>>, e)

\* a conditional edge: the router's answer looked up in the path map
Branch(node, new, key, edges, used) ==
    IF key \in DOMAIN edges
    THEN Commit(node, new, edges[key], used) /\ UNCHANGED <<memRuns, retrievals, summarized>>
    ELSE Raise(Exception("KeyError", key))

\* the thread's checkpoint has the Reviewer pending on a sensitive call: the
\* run was suspended there, or a resume failed in the reviewer model
ReviewPending ==
    /\ pc = REVIEWER_NODE
    /\ status \in {"interrupted", "error"}
    /\ extract_last_tool_call(st.messages) # NoneOpt

\* POST /chat/stream without resume_action: a new user turn
StartTurn ==
    /\ status # "running"
    /\ UserTurns(st.messages) < (IF llm = "any" THEN MaxTurns ELSE 1)
    /\ llm = "any" => CanGrow
    /\ st' = ApplyWrites(st, [messages |-> <<HumanMessage("u", None, nextId)>>,
                               core_messages |-> <<HumanMessage("u", None, 0)>>])
    /\ pc' = RETRIEVE_MEMORY_NODE
    /\ status' = "running"
    /\ steps' = 0
    /\ prev' = "start"
    /\ nextId' = nextId + 1
    /\ memRuns' = 0
    /\ retrievals' = 0
    /\ summarized' = {}
    /\ fault' = NoFault
    /\ other' = "none"
    /\ last_agent' = None
    /\ emitted' = <<>>
    /\ closed' = FALSE
    /\ abandoned' = IF ReviewPending
                    THEN abandoned \cup {extract_last_tool_call(st.messages)[1].id}
                    ELSE abandoned
    /\ UNCHANGED <<llm, filterVars, threadVars>>

\* the memory store raises on every call
memory_store_down == llm = "memory_down"

RetrieveMemory ==
    /\ Running(RETRIEVE_MEMORY_NODE)
    /\ \E new \in Update(retrieve_memory(st, search_memory(Last(st.messages).content,
                                                         memory_store_down))) :
        Commit(RETRIEVE_MEMORY_NODE, new, SUPERVISOR_NODE, 0)
    /\ retrievals' = retrievals + 1
    /\ UNCHANGED <<memRuns, summarized>>

Supervisor ==
    /\ Running(SUPERVISOR_NODE)
    /\ \E r \in Routes, i \in Instructions :
        /\ llm = "tool_loop" => r = "calendar_agent" /\ i = "i1"
        /\ llm = "route_loop" => r = "sheet_agent" /\ i = "i1"
        /\ llm = "memory_down" => r = "none"
        /\ llm = "any" /\ r \in WorkerRoutes \cap RouteLiteral => CanGrow
        /\ r \notin WorkerRoutes => i = "i1"
        /\ IF r \in RouteLiteral
           THEN LET response == [route |-> r, message_to_next_agent |-> i,
                                 response |-> "reply"]
                IN \E new \in Update(call_supervisor(st, response, nextId)) :
                     Branch(SUPERVISOR_NODE, new, supervisor_should_continue(new),
                            SupervisorEdges, 2)
           ELSE llm = "any" /\ Raise(Exception("ValidationError", r))

\* what the chain prompt | llm.with_structured_output(Supervisor) does with a
\* completion that is no Supervisor object: the parser raises, or it yields
\* None and call_supervisor fails on response.response
with_structured_output_failures ==
    {Exception("OutputParserException", "malformed"),
     Exception("AttributeError", "malformed")}

\* the Controller's completion cannot be parsed: nothing in ainvoke or in
\* call_supervisor catches the failure
MalformedDecision ==
    /\ llm = "any"
    /\ Running(SUPERVISOR_NODE)
    /\ \E e \in with_structured_output_failures :
         Fail(<<StreamItem(TRUE, AIMessage("text", None, <<>>, 0))>>, e)

\* what a worker's model may answer: a final text, or tool calls
WorkerAnswers(calls) ==
    {<<c, <<>> >> : c \in FinalTexts} \cup {<<"", n>> : n \in calls}

\* a completion that carries a text together with its tool-call request: the
\* mail worker announces the draft it asks to send
DraftAnswers == {<<"txt", <<"send_email">> >>}

AnswerAllowed(a) ==
    /\ llm = "tool_loop" => a[2] # <<>>
    /\ llm = "route_loop" => a = <<"txt", <<>> >>
    /\ llm = "any" /\ a[2] # <<>> => CanGrow

EmailAgent ==
    /\ Running(EMAIL_AGENT_NODE)
    /\ \E a \in WorkerAnswers(EmailToolCalls) \cup DraftAnswers :
        /\ AnswerAllowed(a)
        /\ \E new \in Update(call_email_agent(st, Completion(a[1], a[2], nextId))) :
            Branch(EMAIL_AGENT_NODE, new, sub_agent_should_continue(new),
                   EmailAgentEdges, 1 + Len(a[2]))

CalendarAgent ==
    /\ Running(CALENDAR_AGENT_NODE)
    /\ \E a \in WorkerAnswers(CalendarToolCalls) :
        /\ AnswerAllowed(a)
        /\ \E new \in Update(call_calendar_agent(st, Completion(a[1], a[2], nextId))) :
            Branch(CALENDAR_AGENT_NODE, new, sub_agent_should_continue(new),
                   CalendarAgentEdges, 1 + Len(a[2]))

SheetAgent ==
    /\ Running(SHEET_AGENT_NODE)
    /\ \E a \in WorkerAnswers(SheetToolCalls) :
        /\ AnswerAllowed(a)
        /\ \E new \in Update(call_sheet_agent(st, Completion(a[1], a[2], nextId))) :
            Branch(SHEET_AGENT_NODE, new, sub_agent_should_continue(new),
                   SheetAgentEdges, 1 + Len(a[2]))

\* the browser worker's node: no decision the Supervisor schema accepts leads
\* to it, so no run schedules it
BrowserAgent ==
    /\ Running(BROWSER_AGENT_NODE)
    /\ \E t \in FinalTexts :
        /\ \E new \in Update(call_browser_agent(st, t, nextId)) :
            Commit(BROWSER_AGENT_NODE, new, CLEAR_STATE_NODE, 1)
        /\ UNCHANGED <<memRuns, retrievals, summarized>>

\* which of the pending calls hit a failing service
ToolOutcomes ==
    IF llm = "any" THEN SUBSET (1..Len(pending_tool_calls(st)))
    ELSE IF memory_store_down THEN {1..Len(pending_tool_calls(st))}
    ELSE {{}}

EmailTool ==
    /\ Running(EMAIL_TOOL_NODE)
    /\ \E failed \in ToolOutcomes : \E w \in {ToolNode(st, EMAIL_TOOLS, nextId, failed)} :
        Commit(EMAIL_TOOL_NODE, ApplyWrites(st, w), EMAIL_AGENT_NODE, Len(w.messages))
    /\ UNCHANGED <<memRuns, retrievals, summarized>>

CalendarTool ==
    /\ Running(CALENDAR_TOOL_NODE)
    /\ \E failed \in ToolOutcomes : \E w \in {ToolNode(st, CAL_TOOLS, nextId, failed)} :
        Commit(CALENDAR_TOOL_NODE, ApplyWrites(st, w), CALENDAR_AGENT_NODE, Len(w.messages))
    /\ UNCHANGED <<memRuns, retrievals, summarized>>

SheetTool ==
    /\ Running(SHEET_TOOL_NODE)
    /\ \E failed \in ToolOutcomes : \E w \in {ToolNode(st, SHEET_TOOLS, nextId, failed)} :
        Commit(SHEET_TOOL_NODE, ApplyWrites(st, w), SHEET_AGENT_NODE, Len(w.messages))
    /\ UNCHANGED <<memRuns, retrievals, summarized>>

\* the Reviewer reached from the mail worker: auto-approval, passthrough,
\* or interrupt() (the request ends with the interrupt event)
Reviewer ==
    /\ Running(REVIEWER_NODE)
    /\ \E r \in {call_reviewer_agent(st, NoneOpt, [decision |-> None, feedback |-> None],
                                        nextId)} :
        IF r.interrupt
        THEN /\ status' = "interrupted"
             /\ other' = "none"
             /\ emitted' = after_stream(pc, TRUE)
             /\ closed' = TRUE
             /\ UNCHANGED <<st, pc, steps, prev, llm, nextId, memRuns, retrievals,
                            summarized, fault, last_agent, abandoned, filterVars,
                            threadVars>>
        ELSE \E new \in Update(r.writes) :
                Branch(REVIEWER_NODE, new, reviewer_should_continue(new), ReviewerEdges, 0)

\* POST /chat/stream with resume_action on the suspended thread: the
\* Reviewer runs again with the human's text and classifies it
ResumeTurn ==
    /\ status = "interrupted"
    /\ pc = REVIEWER_NODE
    /\ \E d \in Decisions, f \in Feedbacks :
        \E r \in {call_reviewer_agent(st, Some("human reply"),
                                       [decision |-> d, feedback |-> f], nextId)} :
        \E new \in Update(r.writes) :
        LET key == reviewer_should_continue(new)
        IN /\ ~r.interrupt
           /\ key \in DOMAIN ReviewerEdges
           /\ st' = new
           /\ pc' = ReviewerEdges[key]
           /\ status' = "running"
           /\ steps' = 1
           /\ prev' = REVIEWER_NODE
           /\ nextId' = nextId + 1
           /\ fault' = NoFault
           /\ other' = "none"
           /\ Yield(None, REVIEWER_NODE,
                    <<StreamItem(TRUE, AIMessage("review", None, <<>>, 0))>>
                    \o stream_items(REVIEWER_NODE, new), ReviewerEdges[key])
           /\ UNCHANGED <<llm, memRuns, retrievals, summarized, abandoned, filterVars,
                          threadVars>>

\* the handoff the Controller issued last (the instruction of the excursion)
RECURSIVE last_handoff(_, _)
last_handoff(messages, i) ==
    IF i = 0 THEN None
    ELSE IF messages[i].type = "human" /\ messages[i].name = "Supervisor"
         THEN messages[i].content
         ELSE last_handoff(messages, i - 1)

ClearState ==
    /\ Running(CLEAR_STATE_NODE)
    /\ \E w \in {clear_sub_agents_state(st, nextId)} :
          /\ Commit(CLEAR_STATE_NODE, ApplyWrites(st, w), SUPERVISOR_NODE, Len(w.messages))
          /\ summarized' = IF w.messages # <<>>
                           THEN summarized \cup
                                {<<st.route, last_handoff(st.messages, Len(st.messages))>>}
                           ELSE summarized
    /\ UNCHANGED <<memRuns, retrievals>>

MemoryAgent ==
    /\ Running(MEMORY_AGENT_NODE)
    /\ \E a \in WorkerAnswers(MemoryToolCalls) :
        /\ \E new \in Update(call_memory_agent(st, Completion(a[1], a[2], nextId))) :
            /\ llm = "any" /\ memory_should_continue(new) # "end" => CanGrow
            /\ Branch(MEMORY_AGENT_NODE, new, memory_should_continue(new),
                      MemoryAgentEdges, 1 + Len(a[2]))

MemoryTool ==
    /\ Running(MEMORY_TOOL_NODE)
    /\ \E failed \in ToolOutcomes : \E w \in {ToolNode(st, MEMORY_TOOLS, nextId, failed)} :
        Commit(MEMORY_TOOL_NODE, ApplyWrites(st, w), MEMORY_AGENT_NODE, Len(w.messages))
    /\ memRuns' = memRuns + 1
    /\ UNCHANGED <<retrievals, summarized>>

\* a model completion raises inside a node
NodeFails ==
    /\ llm = "any"
    /\ status = "running"
    /\ steps < RecursionLimit
    /\ pc \in ModelNodes
    /\ Raise(Exception("Exception", "model"))

\* the reviewer model raises after a resume: the thread stays at the Reviewer
ReviewFails ==
    /\ llm = "any"
    /\ status = "interrupted"
    /\ pc = REVIEWER_NODE
    /\ Raise(Exception("Exception", "model"))

\* recursion_limit supersteps done and a node still pending: GraphRecursionError
RecursionLimitHit ==
    /\ status = "running"
    /\ steps >= RecursionLimit
    /\ Raise(Exception("GraphRecursionError", "recursion_limit"))

\* POST /chat/stream without resume_action while the run of an earlier request
\* for the same thread id is in its first superstep (the client submits twice):
\* chat_stream starts a second stream_generator, whose graph.astream loads the
\* thread's checkpoint and runs the entry node. Nothing serializes the two
\* runs. The second run is followed while the node of the first one executes.
OverlappingStart ==
    /\ status = "running"
    /\ prev = "start"
    /\ other = "none"
    /\ other' = RETRIEVE_MEMORY_NODE
    /\ UNCHANGED <<st, pc, status, steps, prev, llm, nextId, memRuns, retrievals,
                   summarized, fault, last_agent, emitted, closed, abandoned, filterVars,
                   threadVars>>

\* the server process restarts: graph = build_graph() compiles the graph with
\* a new MemorySaver(), which holds no checkpoint of any thread
Restart ==
    /\ st # InitialState
    /\ st' = InitialState
    /\ pc' = END
    /\ status' = "idle"
    /\ steps' = 0
    /\ prev' = "none"
    /\ nextId' = 1
    /\ memRuns' = 0
    /\ retrievals' = 0
    /\ summarized' = {}
    /\ fault' = NoFault
    /\ other' = "none"
    /\ last_agent' = None
    /\ emitted' = <<>>
    /\ closed' = FALSE
    /\ abandoned' = {}
    /\ UNCHANGED <<llm, filterVars, threadVars>>

Next ==
    \/ StartTurn
    \/ ResumeTurn
    \/ RetrieveMemory
    \/ Supervisor
    \/ EmailAgent
    \/ CalendarAgent
    \/ SheetAgent
    \/ EmailTool
    \/ CalendarTool
    \/ SheetTool
    \/ Reviewer
    \/ ClearState
    \/ MemoryAgent
    \/ MemoryTool
    \/ MalformedDecision
    \/ NodeFails
    \/ ReviewFails
    \/ RecursionLimitHit
    \/ OverlappingStart

\* the thread within the lifetime of one server process
Spec == Init /\ [][Next]_vars

(* ------------- filter_supervisor_history called on its own ------------ *)
\* the kinds of message a history can hold, for the message at position id
HistoryMessages(id) ==
    {HumanMessage("u", None, id), HumanMessage("human reply", "review_human", id),
     HumanMessage("i1", "Supervisor", id),
     AIMessage("reply", "Supervisor", <<>>, id),
     AIMessage("reply", "SUPERVISOR", <<>>, id),
     AIMessage("", "Supervisor", <<[name |-> "send_email", id |-> 100 + id]>>, id),
     AIMessage("summary", "sub_agent_task_summary", <<>>, id),
     AIMessage("", "email_agent", <<[name |-> "get_unread_emails", id |-> 100 + id]>>, id),
     ToolMessage("ok", 99 + id, "get_unread_emails", id)}

\* the limits of the direct calls: one that cuts the histories, and the default
FilterLimits == {2, HistoryLimit}

FilterInit ==
    /\ GraphInit
    /\ OneThread
    /\ filterInput = <<>>
    /\ filterLimit \in FilterLimits
    /\ filterOutput = <<>>

\* filter_supervisor_history(messages, limit) called with a history one
\* message longer
FilterCall ==
    /\ Len(filterInput) < MaxHistory
    /\ \E m \in HistoryMessages(Len(filterInput) + 1) :
         \E messages \in {Append(filterInput, m)} :
            /\ filterInput' = messages
            /\ filterOutput' = filter_supervisor_history(messages, filterLimit)
    /\ UNCHANGED <<graphVars, filterLimit, threadVars>>

FilterSpec == FilterInit /\ [][FilterCall]_vars

\* the limits a caller can pass for limit: int, the smallest ones
AnyLimits == {0, 1, 2, 3}

LimitInit ==
    /\ GraphInit
    /\ OneThread
    /\ filterInput = <<>>
    /\ filterLimit \in AnyLimits
    /\ filterOutput = <<>>

\* the direct calls of filter_supervisor_history with any limit
LimitSpec == LimitInit /\ [][FilterCall]_vars

(* ------------------ the Reviewer node run on its own ------------------ *)
\* the last message of the state the node is given: a worker's answer
\* without tool call, with a non-sensitive call, with a sensitive call, and
\* with both
ReviewedAnswers ==
    {Completion("txt", <<>>, 4), Completion("", <<"get_unread_emails">>, 4),
     Completion("", <<"send_email">>, 4), Completion("", <<"reply_to_email">>, 4),
     Completion("", <<"get_unread_emails", "send_email">>, 4),
     Completion("", <<"send_email", "get_unread_emails">>, 4)}

\* the review fields an earlier execution of the node left
EarlierReviews ==
    {<<None, None>>} \cup (Decisions \X Feedbacks)

\* the states the node is run on: a mail excursion whose worker has answered
ReviewerStates ==
    {[InitialState EXCEPT
        !.messages = <<HumanMessage("u", None, 1), AIMessage("reply", "Supervisor", <<>>, 2),
                       HumanMessage("i1", "Supervisor", 3), a>>,
        !.core_messages = <<HumanMessage("u", None, 1),
                            AIMessage("reply", "Supervisor", <<>>, 2), a>>,
        !.email_messages = <<HumanMessage("i1", "Supervisor", 3), a>>,
        !.route = "email_agent",
        !.retrieved_memory = search_memory("u", FALSE),
        !.current_user_message = "u",
        !.supervisor_response = "reply",
        !.email_agent_response = a.content,
        !.review_decision = e[1],
        !.review_feedback = e[2],
        !.bulk_approval_active = b]
     : a \in ReviewedAnswers, e \in EarlierReviews, b \in BOOLEAN}

ReviewerInit ==
    /\ st \in ReviewerStates
    /\ pc = REVIEWER_NODE
    /\ status = "running"
    /\ steps = 3
    /\ prev = EMAIL_AGENT_NODE
    /\ llm = "any"
    /\ nextId = 10
    /\ memRuns = 0
    /\ retrievals = 1
    /\ summarized = {}
    /\ fault = NoFault
    /\ other = "none"
    /\ last_agent = EMAIL_AGENT_NODE
    /\ emitted = <<>>
    /\ closed = FALSE
    /\ abandoned = {}
    /\ OneThread
    /\ filterInput = <<>>
    /\ filterLimit = HistoryLimit
    /\ filterOutput = <<>>

\* call_reviewer_agent and its conditional edge, the resume included
ReviewerSpec == ReviewerInit /\ [][Reviewer \/ ResumeTurn \/ ReviewFails]_vars

(* ------------------------ two threads on one server ------------------ *)
\* what the request being served would checkpoint now
Current ==
    Checkpoint(st, pc, status, steps, prev, llm, nextId, memRuns, retrievals, summarized,
               fault, other, last_agent, emitted, closed, abandoned)

\* a checkpointer with one slot for all thread ids
put_one_slot(storage, thread_id, checkpoint) ==
    [t \in DOMAIN storage |-> checkpoint]

\* MemorySaver.put: the checkpoint is stored under the thread id of the config
put(storage, thread_id, checkpoint) ==
    [storage EXCEPT ![thread_id] = checkpoint]

\* MemorySaver.get_tuple: the checkpoint stored under the thread id
get_tuple(storage, thread_id) == storage[thread_id]

\* the server turns from the request of this thread to a request of another
\* thread id: the graph is one object (api.py line 43), and what it keeps of
\* a thread is what the checkpointer stores under the thread's id
SwitchThread ==
    /\ \E t \in ThreadIds \ {thread} :
         \E storage \in {put(saved, thread, Current)} :
         \E c \in {get_tuple(storage, t)} :
            /\ saved' = storage
            /\ thread' = t
            /\ st' = c.st
            /\ pc' = c.pc
            /\ status' = c.status
            /\ steps' = c.steps
            /\ prev' = c.prev
            /\ llm' = c.llm
            /\ nextId' = c.nextId
            /\ memRuns' = c.memRuns
            /\ retrievals' = c.retrievals
            /\ summarized' = c.summarized
            /\ fault' = c.fault
            /\ other' = c.other
            /\ last_agent' = c.last_agent
            /\ emitted' = c.emitted
            /\ closed' = c.closed
            /\ abandoned' = c.abandoned
    /\ UNCHANGED filterVars

\* a thread whose mail excursion has arrived at the Reviewer (no review made
\* before), and a thread id not used yet
ThreadStarts ==
    {NewThread} \cup
    {Checkpoint(s, REVIEWER_NODE, "running", 3, EMAIL_AGENT_NODE, "any", 10, 0, 1, {},
                NoFault, "none", EMAIL_AGENT_NODE, <<>>, FALSE, {})
        : s \in {r \in ReviewerStates : r.review_decision = None}}

ThreadsInit ==
    /\ thread = "t1"
    /\ saved \in [ThreadIds -> ThreadStarts]
    /\ st = saved[thread].st
    /\ pc = saved[thread].pc
    /\ status = saved[thread].status
    /\ steps = saved[thread].steps
    /\ prev = saved[thread].prev
    /\ llm = saved[thread].llm
    /\ nextId = saved[thread].nextId
    /\ memRuns = saved[thread].memRuns
    /\ retrievals = saved[thread].retrievals
    /\ summarized = saved[thread].summarized
    /\ fault = saved[thread].fault
    /\ other = saved[thread].other
    /\ last_agent = saved[thread].last_agent
    /\ emitted = saved[thread].emitted
    /\ closed = saved[thread].closed
    /\ abandoned = saved[thread].abandoned
    /\ filterInput = <<>>
    /\ filterLimit = HistoryLimit
    /\ filterOutput = <<>>

\* turns, reviews and resumes of two thread ids, interleaved step by step
\* (from the Controller on a turn is followed under Spec)
ThreadsSpec ==
    ThreadsInit /\ [][StartTurn \/ RetrieveMemory \/ Reviewer \/ ResumeTurn \/ ReviewFails
                      \/ SwitchThread]_vars

\* the thread across restarts of the server process
RestartSpec == Init /\ [][Next \/ Restart]_vars

\* what the graph run of one request does by itself; StartTurn and ResumeTurn
\* are requests of the client
RunStep ==
    \/ RetrieveMemory \/ Supervisor \/ EmailAgent \/ CalendarAgent \/ SheetAgent
    \/ EmailTool \/ CalendarTool \/ SheetTool \/ Reviewer
    \/ ClearState \/ MemoryAgent \/ MemoryTool \/ MalformedDecision \/ NodeFails
    \/ RecursionLimitHit

\* stream_generator drives graph.astream to its end: a run that can take a
\* step takes one
FairSpec == Spec /\ WF_vars(RunStep)

(* ------------------------ what the nodes are given -------------------- *)
\* the node is about to run in the current request
AboutToRun(node) == Running(node)

\* the history call_supervisor passes to the controller model
SupervisorInput == filter_supervisor_history(st.messages, HistoryLimit)

\* the sub-log key of a generic worker node
HistoryKey(node) ==
    CASE node = EMAIL_AGENT_NODE -> "email_messages"
      [] node = CALENDAR_AGENT_NODE -> "calendar_messages"
      [] node = SHEET_AGENT_NODE -> "sheet_messages"

GenericWorkerNodes == {EMAIL_AGENT_NODE, CALENDAR_AGENT_NODE, SHEET_AGENT_NODE}
WorkerNodes == GenericWorkerNodes \cup {BROWSER_AGENT_NODE}

HasSensitiveCall(m) ==
    \E k \in 1..Len(m.tool_calls) : Lower(m.tool_calls[k].name) \in SENSITIVE_EMAIL_TOOLS

\* the tool calls the tool node would execute now
CallsToExecute == latest_ai_message(st.messages, Len(st.messages))[1]

(* -------------------------------- C1 ---------------------------------- *)
\* C1: the mail Tool Execution node executes a message that carries a
\* sensitive call (send_email, reply_to_email), at whatever position, only
\* when the Reviewer ran on that message immediately before and left
\* review_decision = approved.
C1_SensitiveOnlyAfterApproval ==
    (AboutToRun(EMAIL_TOOL_NODE) /\ HasSensitiveCall(CallsToExecute))
        => (prev = REVIEWER_NODE /\ st.review_decision = "approved")

(* -------------------------------- C2 ---------------------------------- *)
\* a step of the Reviewer node on its first execution (not a raised error)
ReviewerStep == AboutToRun(REVIEWER_NODE) /\ status' # "error"

\* a resume on which the Reviewer classified the human reply
ResumeStep == status = "interrupted" /\ status' = "running" /\ prev' = REVIEWER_NODE

\* a step of the mail worker node that committed
MailWorkerStep == AboutToRun(EMAIL_AGENT_NODE) /\ status' = "running" /\ prev' = EMAIL_AGENT_NODE

PendingIsSensitive ==
    /\ extract_last_tool_call(st.messages) # NoneOpt
    /\ Lower(extract_last_tool_call(st.messages)[1].name) \in SENSITIVE_EMAIL_TOOLS

C3_BulkFalseAtHandoff ==
    (status = "running" /\ prev = SUPERVISOR_NODE /\ pc \in WorkerNodes)
        => ~st.bulk_approval_active

(* -------------------------------- C4 ---------------------------------- *)
\* C4: core-log purity: in every reachable state core_messages holds no
\* message with tool-call requests and no tool-result message.
C4_CoreLogPure ==
    \A i \in 1..Len(st.core_messages) :
        st.core_messages[i].tool_calls = <<>> /\ st.core_messages[i].type # "tool"

(* -------------------------------- C5 ---------------------------------- *)
\* every tool-call message of the list is immediately followed by one
\* result message per correlation id it requests
Paired(msgs) ==
    \A i \in 1..Len(msgs) :
        LET n == Len(msgs[i].tool_calls)
        IN n > 0 =>
            /\ i + n <= Len(msgs)
            /\ \A k \in 1..n : msgs[i + k].type = "tool"
            /\ {msgs[i + k].tool_call_id : k \in 1..n} = tc_ids(msgs[i])

\* C5: the message list a generic worker node (mail, calendar, contacts)
\* passes to its model is paired: every message that still carries
\* tool_call_requests is followed by a result for each of its correlation ids
\* (the others have been stripped to content only).
C5_WorkerInputPaired ==
    \A node \in GenericWorkerNodes :
        AboutToRun(node) => Paired(_get_agent_inputs(st, HistoryKey(node)))

(* -------------------------------- C6 ---------------------------------- *)
\* C6: within one turn the Memory Tool Execution node runs at most 2 times,
\* whatever the memory model returns.
C6_MemoryLoopBounded == memRuns <= MemoryToolCap

\* the memory model asked for a tool a third time in the turn and the turn
\* ended instead
C6_Witness ==
    /\ memRuns = MemoryToolCap
    /\ status = "idle"
    /\ prev = MEMORY_AGENT_NODE
    /\ Last(st.messages).tool_calls # <<>>

(* -------------------------------- C7 ---------------------------------- *)
\* C7: turn completion: a request runs at most recursion_limit supersteps and
\* every running turn eventually stops (turn end, review suspension or
\* error), whatever the controller and worker models return.
C7_TurnCompletes ==
    /\ [](steps <= RecursionLimit)
    /\ (status = "running") ~> (status # "running")

\* a worker model that asks for a tool on every invocation was stopped by
\* the recursion limit
C7_Witness ==
    /\ llm = "tool_loop"
    /\ steps = RecursionLimit
    /\ status = "error"
    /\ pc \in {CALENDAR_AGENT_NODE, CALENDAR_TOOL_NODE}

(* -------------------------------- C8 ---------------------------------- *)
\* a worker node committed a message without tool-call request
WorkerFinished ==
    /\ pc \in WorkerNodes /\ AboutToRun(pc)
    /\ status' = "running" /\ prev' = pc
    /\ Last(st'.messages).tool_calls = <<>>

\* the State Summarizer ran on an excursion a worker finished
SummarizerAfterWorker ==
    /\ AboutToRun(CLEAR_STATE_NODE) /\ prev \in WorkerNodes
    /\ status' = "running" /\ prev' = CLEAR_STATE_NODE

\* C8: when a worker's latest message carries no tool-call request, whatever
\* its content, the State Summarizer runs next, and the history given to the
\* next Controller invocation ends with the task summary of that excursion.
C8_SummaryPresent ==
    [][/\ WorkerFinished => pc' = CLEAR_STATE_NODE
       /\ SummarizerAfterWorker
            => /\ pc' = SUPERVISOR_NODE
               /\ LET input == filter_supervisor_history(st'.messages, HistoryLimit)
                  IN /\ input # <<>>
                     /\ Last(input).name = "sub_agent_task_summary"
                     /\ Last(input).id = nextId
      ]_vars

(* -------------------------------- C9 ---------------------------------- *)
\* C9: after a task summary for an instruction has been appended, no later
\* Controller decision of the turn routes to the same worker with the same
\* instruction.
C9_NoRedispatch ==
    (status = "running" /\ prev = SUPERVISOR_NODE /\ pc \in WorkerNodes)
        => <<st.route, st.message_to_next_agent[1].content>> \notin summarized

(* -------------------------------- C10 --------------------------------- *)
SubLogKeys == {"email_messages", "calendar_messages", "sheet_messages",
               "memory_messages", "browser_messages", "research_messages"}

WorkerResponseKeys == {"email_agent_response", "calendar_agent_response",
                       "sheet_agent_response", "memory_agent_response",
                       "browser_agent_response", "research_agent_response"}

\* C10: in the state right after the State Summarizer runs every sub-log is
\* empty (mail, calendar, contacts, memory, browser, research), every worker
\* response is cleared, the pending sensitive call, review decision, review
\* feedback and handoff message are empty and bulk_approval_active is false.
C10_SummarizerReset ==
    (status = "running" /\ prev = CLEAR_STATE_NODE)
        => /\ \A k \in SubLogKeys : st[k] = <<>>
           /\ \A k \in WorkerResponseKeys : st[k] = None
           /\ st.pending_email_tool_call = NoneOpt
           /\ st.review_decision = None
           /\ st.review_feedback = None
           /\ st.message_to_next_agent = NoneOpt
           /\ ~st.bulk_approval_active

(* --------------------------- C11 ------------------------------------- *)
\* C11: when the Controller's output cannot be parsed into a routing decision,
\* the Controller node still completes: route none, the raw text as the
\* response, the Memory Agent next, and the turn does not end with an error.
C11_DegradedFallback ==
    [][MalformedDecision =>
          /\ status' = "running"
          /\ pc' = MEMORY_AGENT_NODE
          /\ st'.route = "none"
          /\ fault' = NoFault]_vars

(* --------------------------- C12 ------------------------------------- *)
\* the tool nodes and the worker each of them returns to
ToolNodeWorker ==
    (EMAIL_TOOL_NODE :> EMAIL_AGENT_NODE) @@ (CALENDAR_TOOL_NODE :> CALENDAR_AGENT_NODE)
    @@ (SHEET_TOOL_NODE :> SHEET_AGENT_NODE) @@ (MEMORY_TOOL_NODE :> MEMORY_AGENT_NODE)

ToolStep == EmailTool \/ CalendarTool \/ SheetTool \/ MemoryTool

ToolResultTexts == {tool_result(raised) : raised \in BOOLEAN} \cup {"not a valid tool"}

C13_DurableSuspension ==
    [][(status = "interrupted" /\ Restart) =>
          /\ status' = "interrupted"
          /\ pc' = REVIEWER_NODE
          /\ st' = st]_vars

(* --------------------------- C14 ------------------------------------- *)
\* the node executions in progress for the thread
NodesRunning ==
    (IF status = "running" THEN 1 ELSE 0) + (IF other # "none" THEN 1 ELSE 0)

\* C14: for one thread id at most one node runs at any time, whatever start-turn
\* and resume requests arrive for the thread.
C14_OneNodeAtATime == NodesRunning <= 1

(* --------------------------- C15 ------------------------------------- *)
\* the nodes build_graph adds to the graph
GraphNodes ==
    {RETRIEVE_MEMORY_NODE, SUPERVISOR_NODE, EMAIL_AGENT_NODE, CALENDAR_AGENT_NODE,
     SHEET_AGENT_NODE, BROWSER_AGENT_NODE, MEMORY_AGENT_NODE, REVIEWER_NODE,
     CLEAR_STATE_NODE, EMAIL_TOOL_NODE, CALENDAR_TOOL_NODE, SHEET_TOOL_NODE,
     MEMORY_TOOL_NODE}

\* the node each route value of the claim stands for
RouteTarget ==
    ("email_agent" :> EMAIL_AGENT_NODE) @@ ("calendar_agent" :> CALENDAR_AGENT_NODE)
    @@ ("sheet_agent" :> SHEET_AGENT_NODE) @@ ("browser_agent" :> BROWSER_AGENT_NODE)
    @@ ("deep_research_agent" :> DEEP_RESEARCH_AGENT_NODE) @@ ("none" :> MEMORY_AGENT_NODE)

\* C15: whichever of the routes mail, calendar, contacts, browser, research or
\* none the Controller's model decides on, the Controller node completes and
\* the next node is the worker of that kind, a node of the compiled graph, or
\* the Memory Agent for none.
C15_ControllerTransitions ==
    [][Supervisor =>
          /\ fault' = NoFault
          /\ status' = "running"
          /\ st'.route \in DOMAIN RouteTarget =>
                pc' = RouteTarget[st'.route] /\ pc' \in GraphNodes]_vars

(* --------------------------- C16 ------------------------------------- *)
\* the content of the latest message the user sent (a human message without
\* a name), or None
LatestUserText(messages) ==
    LET us == {i \in 1..Len(messages) :
                  messages[i].type = "human" /\ messages[i].name = None}
    IN IF us = {} THEN None
       ELSE messages[CHOOSE i \in us : \A j \in us : j <= i].content

\* how often Memory Retrieval has run when the turn is where it is
RetrievedOnce ==
    /\ (status = "running" /\ pc = RETRIEVE_MEMORY_NODE) => retrievals = 0
    /\ (status \in {"running", "interrupted"} /\ pc # RETRIEVE_MEMORY_NODE) => retrievals = 1
    /\ (status = "idle" /\ st.messages # <<>>) => retrievals = 1
    /\ pc = SUPERVISOR_NODE => retrievals = 1

\* C16: Memory Retrieval runs exactly once per turn, as the first node of the
\* turn and so before the Controller; it sets the retrieved context from the
\* latest user message.  A resume request continues from the Reviewer
\* checkpoint: it does not run Memory Retrieval and appends no user message.
C16_RetrievalOncePerTurn ==
    /\ RetrievedOnce
    /\ [][/\ RetrievedOnce'
          /\ StartTurn => pc' = RETRIEVE_MEMORY_NODE
          /\ RetrieveMemory =>
                /\ prev = "start"
                /\ pc' = SUPERVISOR_NODE
                /\ st'.retrieved_memory = search_memory(LatestUserText(st.messages),
                                                        llm = "memory_down")
                /\ st'.current_user_message = LatestUserText(st.messages)
          /\ ResumeTurn =>
                /\ pc = REVIEWER_NODE
                /\ prev' = REVIEWER_NODE
                /\ retrievals' = retrievals
                /\ st'.retrieved_memory = st.retrieved_memory
                /\ UserTurns(st'.messages) = UserTurns(st.messages)]_vars

\* a resumed turn: the Reviewer ran on the human's text, and the one retrieval
\* of the turn is the one made before the suspension
C16_Witness ==
    /\ status = "running"
    /\ prev = REVIEWER_NODE
    /\ steps = 1
    /\ retrievals = 1
    /\ st.retrieved_memory = search_memory("u", FALSE)
    /\ st.review_decision \in Decisions

(* --------------------------- C17 ------------------------------------- *)
\* the nodes of the kinds Worker, Tool Execution, Reviewer and State Summarizer
DomainWorkNodes ==
    {EMAIL_AGENT_NODE, CALENDAR_AGENT_NODE, SHEET_AGENT_NODE, BROWSER_AGENT_NODE,
     EMAIL_TOOL_NODE, CALENDAR_TOOL_NODE, SHEET_TOOL_NODE, REVIEWER_NODE,
     CLEAR_STATE_NODE}

\* C17: a turn ends normally only through the Long-Term Memory Agent: the step
\* that completes a run is a step of the Memory Agent; a Controller decision
\* with route none schedules the Memory Agent, which is entered only from the
\* Controller or from its own tool node; and no step of a Worker, Tool
\* Execution, Reviewer or State Summarizer node leads to the end of the turn.
C17_EndsThroughMemoryAgent ==
    [][/\ (status = "running" /\ status' = "idle")
            => MemoryAgent /\ pc = MEMORY_AGENT_NODE /\ prev' = MEMORY_AGENT_NODE
       /\ (Supervisor /\ status' = "running" /\ st'.route = "none")
            => pc' = MEMORY_AGENT_NODE
       /\ (pc # MEMORY_AGENT_NODE /\ pc' = MEMORY_AGENT_NODE)
            => pc \in {SUPERVISOR_NODE, MEMORY_TOOL_NODE}
       /\ (status \in {"running", "interrupted"} /\ pc \in DomainWorkNodes)
            => pc' # END
      ]_vars

\* a turn that ended normally: the Controller decided none and the Memory
\* Agent made the last step
C17_Witness ==
    /\ status = "idle"
    /\ pc = END
    /\ prev = MEMORY_AGENT_NODE
    /\ st.route = "none"
    /\ st.messages # <<>>

(* --------------------------- C18 ------------------------------------- *)
\* the resume on which the Reviewer classified the reply as change_requested
RejectStep == ResumeTurn /\ st'.review_decision = "change_requested"

\* the tool result the Reviewer synthesizes for the call c
IsRejectionOf(msg, c, feedback) ==
    /\ msg.type = "tool"
    /\ msg.tool_call_id = c.id
    /\ msg.content = rejection_text(feedback)

\* the rejection: paired tool results in both logs, the flag reset, the mail
\* worker next
RejectionPaired ==
    RejectStep =>
       LET c == extract_last_tool_call(st.messages)[1]
       IN /\ Len(st'.messages) = Len(st.messages) + 1
          /\ SubSeq(st'.messages, 1, Len(st.messages)) = st.messages
          /\ IsRejectionOf(Last(st'.messages), c, st'.review_feedback)
          /\ Len(st'.email_messages) = Len(st.email_messages) + 1
          /\ IsRejectionOf(Last(st'.email_messages), c, st'.review_feedback)
          /\ \E i \in 1..Len(st.email_messages) :
                c.id \in {st.email_messages[i].tool_calls[k].id :
                             k \in 1..Len(st.email_messages[i].tool_calls)}
          /\ st'.bulk_approval_active = FALSE
          /\ status' = "running"
          /\ pc' = EMAIL_AGENT_NODE

\* the mail worker's answer to a rejection
RedraftStep ==
    /\ EmailAgent
    /\ status' = "running"
    /\ prev = REVIEWER_NODE
    /\ st.review_decision = "change_requested"

\* C18: on a change_requested decision the Reviewer appends to the mail sub-log
\* and to the message log a tool result with the pending call's correlation id
\* whose content carries the rejection and the feedback, and resets
\* bulk_approval_active; the mail worker runs next, and when its answer asks
\* for a sensitive tool again the run goes to the Reviewer, which suspends.
C18_RejectionPairing ==
    [][/\ RejectionPaired
       /\ (RedraftStep /\ HasSensitiveCall(Last(st'.messages))) => pc' = REVIEWER_NODE
       /\ (Reviewer /\ prev = EMAIL_AGENT_NODE /\ st.review_decision = "change_requested")
             => status' = "interrupted"
      ]_vars

(* --------------------------- C19 ------------------------------------- *)
\* the agent of the latest agent_start event before position i of ev, in a
\* stream whose latest agent_start before ev was for last
StartBefore(last, ev, i) ==
    LET starts == {j \in 1..(i - 1) : ev[j].event = "agent_start"}
    IN IF starts = {} THEN last
       ELSE ev[CHOOSE j \in starts : \A h \in starts : h <= j].agent

\* a step that begins a request, and with it a new stream
RequestStarts == StartTurn \/ ResumeTurn \/ ReviewFails

\* C19: within the stream of one request every token and tool_call event of
\* an agent follows an agent_start event of that agent with no agent_start of
\* another agent in between; the stream yields exactly one terminal event, as
\* its last event: interrupt when the thread is suspended at review, done when
\* the turn completed, error when a node failed; a stream that has yielded its
\* terminal event yields nothing more.
C19_EventStreamOrder ==
    [][LET last == IF status = "running" THEN last_agent ELSE None
       IN /\ \A i \in 1..Len(emitted') :
                /\ emitted'[i].event \in {"token", "tool_call"}
                      => /\ emitted'[i].agent = StartBefore(last, emitted', i)
                         /\ emitted'[i].agent # None
                /\ emitted'[i].event \in TerminalEvents => i = Len(emitted')
          /\ last_agent' = StartBefore(last, emitted', Len(emitted') + 1)
          /\ closed' = (status' # "running")
          /\ closed' => /\ emitted' # <<>>
                        /\ Last(emitted').event =
                             (CASE status' = "interrupted" -> "interrupt"
                                [] status' = "idle" -> "done"
                                [] status' = "error" -> "error")
          /\ ~closed' => \A i \in 1..Len(emitted') : emitted'[i].event \notin TerminalEvents
          /\ closed => RequestStarts
      ]_vars

\* a request whose last step streamed the Memory Agent's final text and then
\* the done event
C19_Witness ==
    /\ closed
    /\ status = "idle"
    /\ Len(emitted) = 3
    /\ emitted[1] = Event("agent_start", MEMORY_AGENT_NODE)
    /\ emitted[2] = Event("token", MEMORY_AGENT_NODE)
    /\ emitted[3] = Event("done", None)

(* --------------------------- C20 ------------------------------------- *)
\* the messages the claim says the Controller is given
ClaimKeeps(m) ==
    \/ m.type = "human" /\ m.name # "review_human"
    \/ m.type = "ai" /\ m.name \in {"Supervisor", "sub_agent_task_summary"}

\* the same with the AI message's name compared without regard to case
KeepsIgnoringCase(m) ==
    \/ m.type = "human" /\ m.name # "review_human"
    \/ m.type = "ai" /\ m.name \in {"Supervisor", "SUPERVISOR", "supervisor",
                                       "sub_agent_task_summary"}

MessageIds(s) == [i \in 1..Len(s) |-> s[i].id]

\* the last n elements of s
LastN(s, n) == IF Len(s) <= n THEN s ELSE SubSeq(s, Len(s) - n + 1, Len(s))

\* no tool result, no other worker's message, no tool-call request
CleanForController(s) ==
    \A i \in 1..Len(s) :
        /\ s[i].type \in {"human", "ai"}
        /\ s[i].type = "ai" => Lower(s[i].name) \in {"supervisor", "sub_agent_task_summary"}
        /\ s[i].tool_calls = <<>>

\* C20 as stated: filter_supervisor_history returns, in their original order,
\* exactly the messages that are human messages not named review_human or AI
\* messages named Supervisor or sub_agent_task_summary, none of them a tool
\* result or another worker's message and none carrying tool-call requests.
C20_FilterExactly ==
    /\ MessageIds(filterOutput) = MessageIds(SelectSeq(filterInput, ClaimKeeps))
    /\ CleanForController(filterOutput)

\* C20 amended: filter_supervisor_history(messages, limit) returns, in their
\* original order, the most recent limit (at least 1, 20 by default) of the messages that
\* are human messages not named review_human or AI messages whose name is,
\* ignoring case, supervisor or sub_agent_task_summary, each with its
\* tool-call requests removed; no tool result and no other worker's message
\* is returned.
C20_FilterMostRecent ==
    LET kept == LastN(SelectSeq(filterInput, KeepsIgnoringCase), filterLimit)
    IN /\ MessageIds(filterOutput) = MessageIds(kept)
       /\ CleanForController(filterOutput)
       /\ \A i \in 1..Len(filterOutput) :
             /\ filterOutput[i].type = kept[i].type
             /\ filterOutput[i].name = kept[i].name
             /\ kept[i].content # "" => filterOutput[i].content = kept[i].content

\* a call whose history holds more messages to keep than the limit, one of
\* them with tool-call requests
C20_Witness ==
    /\ Len(SelectSeq(filterInput, KeepsIgnoringCase)) > filterLimit
    /\ Len(filterOutput) = filterLimit
    /\ \E i \in 1..Len(filterInput) :
          /\ filterInput[i].tool_calls # <<>>
          /\ filterInput[i].id \in {filterOutput[j].id : j \in 1..Len(filterOutput)}

SummaryStep == ClearState /\ Len(st'.messages) = Len(st.messages) + 1

\* C22: the task summary names the instruction that was completed: its
\* instruction field is the content of the handoff message the Controller
\* issued for the excursion that just finished, for every worker kind.
C22_SummaryNamesInstruction ==
    [][SummaryStep =>
          /\ Last(st'.messages).name = "sub_agent_task_summary"
          /\ Last(st'.messages).content =
                final_summary(last_handoff(st.messages, Len(st.messages)))]_vars

(* --------------------------- C23 ------------------------------------- *)
\* the Memory Agent's first invocation of the turn committed a request for a
\* memory tool
FirstMemoryRequest ==
    /\ MemoryAgent
    /\ prev = SUPERVISOR_NODE
    /\ status' # "error"
    /\ Last(st'.messages).tool_calls # <<>>
    /\ Lower(Last(st'.messages).tool_calls[1].name) \in MEMORY_TOOLS

\* C23: the Memory Agent's cap of 2 counts only the tool executions of the
\* current turn: in every turn of a thread, however many memory tool
\* executions earlier turns made, a memory tool call requested by the Memory
\* Agent's first invocation of the turn is executed.
C23_MemoryCapPerTurn ==
    [][FirstMemoryRequest => (status' = "running" /\ pc' = MEMORY_TOOL_NODE)]_vars

(* --------------------------- C24 ------------------------------------- *)
\* C24: the message list the Memory Agent passes to its model is paired in
\* every turn: no message of it requests tool calls without a result for each
\* correlation id, also in the turn after one in which the Memory Agent was
\* stopped while its last message still requested a tool call.
C24_MemoryInputPaired ==
    AboutToRun(MEMORY_AGENT_NODE) => Paired(memory_input_msgs(st))

(* --------------------------- C25 ------------------------------------- *)
\* the Tool Execution node of each worker
WorkerToolNode ==
    (EMAIL_AGENT_NODE :> EMAIL_TOOL_NODE) @@ (CALENDAR_AGENT_NODE :> CALENDAR_TOOL_NODE)
    @@ (SHEET_AGENT_NODE :> SHEET_TOOL_NODE)

\* a worker node committed its answer
WorkerStep == (EmailAgent \/ CalendarAgent \/ SheetAgent) /\ status' = "running"

\* C25: after a worker node the next node is the Reviewer when the worker's
\* last message has a sensitive tool call, the Tool Execution node of that
\* worker when it has a tool call and none is sensitive, and the State
\* Summarizer when it has no tool call; after Tool Execution control returns
\* to the worker that issued the calls.
C25_WorkerTransitions ==
    [][/\ WorkerStep =>
            LET answer == Last(st'.messages)
            IN pc' = IF answer.tool_calls = <<>> THEN CLEAR_STATE_NODE
                     ELSE IF HasSensitiveCall(answer) THEN REVIEWER_NODE
                     ELSE WorkerToolNode[pc]
       /\ (EmailTool \/ CalendarTool \/ SheetTool) => pc' = ToolNodeWorker[pc]
      ]_vars

(* --------------------------- C27 ------------------------------------- *)
\* the handoff the Reviewer of graph/main.py builds on a rejection:
\* f"User requested changes:\n{feedback}\n\nRewrite the email draft based on
\* this feedback."
revision_handoff(feedback, id) ==
    HumanMessage(IF feedback = "fb"
                 THEN "User requested changes: fb. Rewrite the email draft based on this feedback."
                 ELSE "User requested changes: . Rewrite the email draft based on this feedback.",
                 "Supervisor", id)

\* C27: on a change_requested decision the Reviewer stores a new handoff
\* message that instructs the worker to revise the draft according to the
\* feedback.
C27_RevisionHandoff ==
    [][RejectStep =>
          /\ st'.message_to_next_agent # NoneOpt
          /\ \E id \in 0..nextId :
                st'.message_to_next_agent[1] = revision_handoff(st'.review_feedback, id)]_vars

(* --------------------------- C26 ------------------------------------- *)
\* the pending call the Reviewer looks at is absent or not sensitive
NoPendingSensitive(state) ==
    LET pending == IF state.pending_email_tool_call # NoneOpt
                   THEN state.pending_email_tool_call
                   ELSE extract_last_tool_call(state.messages)
    IN pending = NoneOpt \/ Lower(pending[1].name) \notin SENSITIVE_EMAIL_TOOLS

\* the Reviewer node completed, on its first execution or on a resume
ReviewerDone == (Reviewer \/ ResumeTurn) /\ status' = "running"

ModelCallFails == NodeFails \/ ReviewFails

\* the client sends the turn again after the error event of a failed model call
TurnSentAgain ==
    /\ status = "error"
    /\ fault = Exception("Exception", "model")
    /\ pc \in ModelNodes
    /\ StartTurn

\* C29: when a model completion raises inside a node, an error event is
\* emitted and the Conversation State is exactly what it was before the node
\* started, so that sending the turn again gives the same state as if the
\* failure had not happened: the log holds the turn's user message once.
C29_FailedCallLeavesState ==
    [][/\ ModelCallFails =>
            /\ st' = st
            /\ status' = "error"
            /\ emitted' # <<>>
            /\ Last(emitted').event = "error"
       /\ TurnSentAgain => UserTurns(st'.messages) = UserTurns(st.messages)
      ]_vars

(* --------------------------- C30 ------------------------------------- *)
\* the values that say "no relevant context": the answer of search_memory
\* for an empty result, and the default call_supervisor reads
NoContextValues == {"No relevant memories found.", "No relevant Context found."}

\* C30: a failed memory lookup is not fatal: when the memory search fails the
\* Memory Retrieval node completes, the retrieved context is set to the
\* explicit "no relevant context" value, and the turn continues to the
\* Controller.
C30_FailedLookupNotFatal ==
    [][(memory_store_down /\ RetrieveMemory) =>
          /\ status' = "running"
          /\ pc' = SUPERVISOR_NODE
          /\ fault' = NoFault
          /\ st'.retrieved_memory \in NoContextValues]_vars

(* --------------------------- C31 ------------------------------------- *)
\* s is a prefix of t
IsPrefix(s, t) == Len(s) <= Len(t) /\ SubSeq(t, 1, Len(s)) = s

\* C31: the message log is append-only: for every node transition and every
\* start-turn or resume request, "messages" before the step is a prefix of
\* "messages" after it; no entry is removed, reordered or replaced.
C31_MessageLogAppendOnly ==
    [][IsPrefix(st.messages, st'.messages)]_vars

\* the second turn of a thread: the State Summarizer, which rewrites the core
\* log and writes empty sub-logs, has appended its summary to the messages of
\* both turns
C31_Witness ==
    /\ status = "running"
    /\ prev = CLEAR_STATE_NODE
    /\ UserTurns(st.messages) = 2
    /\ Last(st.messages).name = "sub_agent_task_summary"

(* --------------------------- C32 ------------------------------------- *)
\* a user turn, a Controller output or a task summary
CoreEntry(m) ==
    \/ m.type = "human" /\ m.name = None
    \/ m.type = "ai" /\ m.name \in {"Supervisor", "sub_agent_task_summary"}

\* the same, the Controller's handoffs and the human's review replies counted
\* with its outputs
CoreEntryOrHuman(m) ==
    \/ m.type = "human"
    \/ m.type = "ai" /\ m.name \in {"Supervisor", "sub_agent_task_summary"}

\* what an entry says, whichever object carries it
Entries(s) == [i \in 1..Len(s) |-> <<s[i].type, s[i].name, s[i].content>>]

\* C32: core_messages is the filtered projection of messages: in every
\* reachable state, across all turns of the thread, it equals the subsequence
\* of messages made of the user turns, the Controller outputs and the task
\* summaries, in the same order; it keeps the entries of earlier turns and
\* holds no worker or reviewer entry.
C32_CoreIsProjection ==
    \/ Entries(st.core_messages) = Entries(SelectSeq(st.messages, CoreEntry))
    \/ Entries(st.core_messages) = Entries(SelectSeq(st.messages, CoreEntryOrHuman))

\* the part of C32 about earlier turns: every user turn of messages is in
\* core_messages
C32_KeepsEarlierTurns ==
    UserTurns(st.core_messages) = UserTurns(st.messages)

(* --------------------------- C33 ------------------------------------- *)
\* the worker kinds the State Summarizer reports: status label, response key
\* and sub-log key
ReportedWorkers ==
    {<<"Email Agent Status", "email_agent_response", "email_messages">>,
     <<"Calendar Agent Status", "calendar_agent_response", "calendar_messages">>,
     <<"Sheet Agent", "sheet_agent_response", "sheet_messages">>,
     <<"Browser Agent", "browser_agent_response", "browser_messages">>,
     <<"Deep Research Agent Findings", "research_agent_response", "research_messages">>}

\* the contents of the tool results of a sub-log that are no rejection
ToolResultContents(history) ==
    {history[i].content : i \in {j \in 1..Len(history) :
        history[j].type = "tool" /\ history[j].content \notin RejectionTexts}}

\* the details report the worker w of the state: its response, and after it
\* the tool results of its sub-log
Reports(details, state, w) ==
    \E i \in 1..Len(details) :
        /\ details[i].label = w[1]
        /\ details[i].text = state[w[2]]
        /\ ToolResultContents(state[w[3]]) # {}
              => /\ i + 1 <= Len(details)
                 /\ details[i + 1].label = ToolOutputLabel
                 /\ ToolResultContents(state[w[3]])
                       \subseteq {details[i + 1].results[k] :
                                     k \in 1..Len(details[i + 1].results)}

\* C33: for every worker kind whose response is non-empty the task summary
\* contains that response and the contents of the tool results of that
\* worker's sub-log; it never contains the content of a rejection.
C33_SummaryContent ==
    [][SummaryStep =>
          LET details == Last(st'.messages).details
          IN /\ \A w \in ReportedWorkers : Truthy(st[w[2]]) => Reports(details, st, w)
             /\ \A i \in 1..Len(details) :
                   /\ details[i].text \notin RejectionTexts
                   /\ \A k \in 1..Len(details[i].results) :
                         details[i].results[k] \notin RejectionTexts]_vars

(* --------------------------- C34 ------------------------------------- *)
\* the route value of each worker kind the summary reports
ReportedRoute ==
    ("Email Agent Status" :> "email_agent") @@ ("Calendar Agent Status" :> "calendar_agent")
    @@ ("Sheet Agent" :> "sheet_agent") @@ ("Browser Agent" :> "browser_agent")
    @@ ("Deep Research Agent Findings" :> "deep_research_agent")

\* C34: a task summary reports only the excursion that just finished: every
\* worker response in it is the answer of the worker the Controller
\* dispatched last in the current turn, given after the previous State
\* Summarizer run, whatever turns came before, turns that stopped with an
\* error or were abandoned while suspended included.
C34_SummaryOfThisExcursion ==
    [][SummaryStep =>
          LET details == Last(st'.messages).details
          IN \A i \in 1..Len(details) :
                details[i].label \in DOMAIN ReportedRoute
                   => /\ ReportedRoute[details[i].label] = st.route
                      /\ details[i].text =
                            latest_ai_message(st.messages, Len(st.messages))[1].content]_vars

(* --------------------------- C35 ------------------------------------- *)
\* no two tool results of the log carry the same correlation id
NoDuplicateResults(log) ==
    \A i, j \in 1..Len(log) :
        (i < j /\ log[i].type = "tool" /\ log[j].type = "tool")
            => log[i].tool_call_id # log[j].tool_call_id

IsHandoff(m) == m.type = "human" /\ m.name = "Supervisor"

\* how often the log holds the handoff with this id
HandoffCount(log, id) ==
    Cardinality({i \in 1..Len(log) : IsHandoff(log[i]) /\ log[i].id = id})

\* the ids of the handoffs the Controller has issued
HandoffIds(messages) ==
    {messages[i].id : i \in {j \in 1..Len(messages) : IsHandoff(messages[j])}}

\* the id of the handoff the Controller issued last
LatestHandoffId(messages) ==
    CHOOSE id \in HandoffIds(messages) : \A h \in HandoffIds(messages) : h <= id

\* no sub-log holds a tool result or a handoff twice
NoDuplicates(state) ==
    \A k \in SubLogKeys :
        /\ NoDuplicateResults(state[k])
        /\ \A id \in HandoffIds(state.messages) : HandoffCount(state[k], id) <= 1

\* C35: for every sequence of worker, Tool Execution and Reviewer steps a
\* sub-log never holds two tool results for the same correlation id, and the
\* handoff is in the worker's sub-log exactly once after each step of the
\* worker it was issued to: appended on the first, not again when the worker
\* is re-entered after Tool Execution or after a rejection.
C35_NoDuplicates ==
    [][/\ NoDuplicates(st')
       /\ WorkerStep =>
             HandoffCount(st'[HistoryKey(pc)], LatestHandoffId(st.messages)) = 1]_vars

(* --------------------------- C36 ------------------------------------- *)
\* the correlation ids the messages of the list request
RequestedIds(msgs) == UNION {tc_ids(msgs[i]) : i \in 1..Len(msgs)}

\* C36: an abandoned review is never executed: once a new user turn has been
\* started on a thread suspended at the Reviewer, the sensitive call that
\* awaited review is not among the calls a Tool Execution node runs, in that
\* turn or a later one, and the message list a worker passes to its model
\* does not hold that call as a tool-call request.
C36_AbandonedNeverExecuted ==
    /\ \A node \in DOMAIN ToolNodeWorker :
          AboutToRun(node) => tc_ids(CallsToExecute) \cap abandoned = {}
    /\ \A node \in GenericWorkerNodes :
          AboutToRun(node)
             => RequestedIds(_get_agent_inputs(st, HistoryKey(node))) \cap abandoned = {}

\* after an abandoned review the mail worker was dispatched again, got its
\* input and had a tool executed
C36_Witness ==
    /\ abandoned # {}
    /\ status = "running"
    /\ prev = EMAIL_TOOL_NODE
    /\ pc = EMAIL_AGENT_NODE
    /\ abandoned \subseteq RequestedIds(st.email_messages)

(* --------------------------- C37 ------------------------------------- *)
\* the Conversation State and the pending suspension of thread u
ThreadState(u) == IF u = thread THEN Current ELSE saved[u]

=============================================================================
